---- MODULE Spec2Model ----
(***************************************************************************)
(* mygrep (src/src/main.rs): a line-oriented search tool.  One run reads   *)
(* the whole input, scans it line by line, prints matches (with optional   *)
(* before/after context) as it goes, or, in section mode, accumulates line *)
(* indices and prints them once after the scan.                            *)
(*                                                                         *)
(* A string is a sequence of characters; a character is a TLA+ string      *)
(* naming it.  Rust strings are UTF-8 and every offset the program handles *)
(* is a byte offset, so each character has a width in bytes.               *)
(*   "Idot" is U+0130 (2 bytes); its lower case is "i" followed by the     *)
(*   combining dot "cdot" (U+0307, 2 bytes): 3 bytes.                      *)
(*   "ESC" is the escape byte 0x1b of the terminal styling sequences.      *)
(* The run is modelled from the point where the command line is parsed and *)
(* the input is read (main.rs:207), for runs without --debug.              *)
(***************************************************************************)
EXTENDS Integers, Sequences, FiniteSets, TLC

VARIABLES args, content, index, line, search_line, indexes, colored_line,
          pc, exit_code, stdout, stderr, sections_to_print, found_rows

vars == <<args, content, index, line, search_line, indexes, colored_line,
          pc, exit_code, stdout, stderr, sections_to_print, found_rows>>

(***************************************************************************)
(* Bounds of the input families.                                           *)
(***************************************************************************)
MaxLineLen == 3
MaxPatLen == 2
MaxCtx == 2
CtxLines == 3
SectionLines == 5

(***************************************************************************)
(* Sequences.                                                              *)
(***************************************************************************)
RECURSIVE Flatten(_)
Flatten(ss) == IF ss = <<>> THEN <<>> ELSE Head(ss) \o Flatten(Tail(ss))

RECURSIVE Reverse(_)
Reverse(s) == IF s = <<>> THEN <<>> ELSE Reverse(Tail(s)) \o <<Head(s)>>

Range(s) == {s[k] : k \in 1..Len(s)}

Min(a, b) == IF a < b THEN a ELSE b
Max(a, b) == IF a > b THEN a ELSE b

\* All sequences over S of length at most n.
SeqUpTo(S, n) == UNION {[1..k -> S] : k \in 0..n}

(***************************************************************************)
(* UTF-8 strings: widths, byte offsets, slicing.                           *)
(***************************************************************************)
Width(c) == IF c \in {"Idot", "cdot"} THEN 2 ELSE 1

RECURSIVE ByteLen(_)
ByteLen(s) == IF s = <<>> THEN 0 ELSE Width(Head(s)) + ByteLen(Tail(s))

\* Byte offset of the boundary after the first k characters of s.
Off(s, k) == ByteLen(SubSeq(s, 1, k))

IsCharBoundary(s, b) == \E k \in 0..Len(s) : Off(s, k) = b

CharIdx(s, b) == CHOOSE k \in 0..Len(s) : Off(s, k) = b

\* &s[b..e] succeeds iff b <= e <= s.len() and both lie on character
\* boundaries; otherwise the slice panics.
SliceOk(s, b, e) == b <= e /\ IsCharBoundary(s, b) /\ IsCharBoundary(s, e)

Slice(s, b, e) == SubSeq(s, CharIdx(s, b) + 1, CharIdx(s, e))

\* char::to_lowercase, str::to_lowercase.
LowerChar(c) ==
  IF c = "A" THEN <<"a">>
  ELSE IF c = "Idot" THEN <<"i", "cdot">>
  ELSE <<c>>

to_lowercase(s) == Flatten([k \in 1..Len(s) |-> LowerChar(s[k])])

(***************************************************************************)
(* str::match_indices, str::contains, str::replace.  k is a 0-based        *)
(* character position; a match of one valid UTF-8 string in another always *)
(* starts on a character boundary.                                         *)
(***************************************************************************)
MatchAt(s, p, k) == k + Len(p) <= Len(s) /\ SubSeq(s, k + 1, k + Len(p)) = p

\* The character positions where p occurs in s.
Occurrences(s, p) == {k \in 0..(Len(s) - Len(p)) : MatchAt(s, p, k)}

\* Faulty variant: the scan restarts one character after the start of a
\* match, so overlapping occurrences are all reported.
RECURSIVE MatchFromOverlapping(_, _, _)
MatchFromOverlapping(occ, n, k) ==
  LET ahead == {x \in occ : x >= k} IN
    IF ahead = {} THEN <<>>
    ELSE LET m == CHOOSE x \in ahead : \A y \in ahead : x <= y
         IN  <<m>> \o MatchFromOverlapping(occ, n, m + 1)

\* Left-to-right, non-overlapping: the first occurrence at or after k, then
\* the scan restarts at its end (one character further after an empty
\* match).
RECURSIVE MatchFrom(_, _, _)
MatchFrom(occ, n, k) ==
  LET ahead == {x \in occ : x >= k} IN
    IF ahead = {} THEN <<>>
    ELSE LET m == CHOOSE x \in ahead : \A y \in ahead : x <= y
         IN  <<m>> \o MatchFrom(occ, n, IF n = 0 THEN m + 1 ELSE m + n)

match_indices(s, p) == MatchFrom(Occurrences(s, p), Len(p), 0)

contains(s, p) == Occurrences(s, p) # {}

\* str::replace: the text between the matches, each match replaced by to.
replace(s, from, to) ==
  LET ks == match_indices(s, from)
      n == Len(from)
      m == Len(ks)
  IN  IF m = 0 THEN s
      ELSE Flatten([j \in 1..m |->
                      SubSeq(s, IF j = 1 THEN 1 ELSE ks[j - 1] + n + 1, ks[j])
                      \o to])
           \o SubSeq(s, ks[m] + n + 1, Len(s))

(***************************************************************************)
(* The regex crate, for the patterns of the model: literal characters and  *)
(* groups.  Regex::new fails iff the parentheses are unbalanced; a pattern *)
(* that compiles matches what its characters outside the parentheses       *)
(* match, in sequence.  find_iter yields the leftmost non-overlapping      *)
(* matches, as match_indices does.                                         *)
(***************************************************************************)
RECURSIVE ParenDepthOk(_, _)
ParenDepthOk(p, depth) ==
  IF p = <<>> THEN depth = 0
  ELSE IF Head(p) = "(" THEN ParenDepthOk(Tail(p), depth + 1)
  ELSE IF Head(p) = ")" THEN depth > 0 /\ ParenDepthOk(Tail(p), depth - 1)
  ELSE ParenDepthOk(Tail(p), depth)

RegexNewOk(p) == ParenDepthOk(p, 0)

RegexCore(p) == SelectSeq(p, LAMBDA c : c \notin {"(", ")"})

\* Ranges (start, end) in bytes of the matches at the character positions ks.
ByteRanges(s, ks, n) == [j \in 1..Len(ks) |-> <<Off(s, ks[j]), Off(s, ks[j]) + n>>]

(***************************************************************************)
(* main.rs:127-166.  A Result<bool, _> is a record: ok, and the value.     *)
(***************************************************************************)
line_contains_pattern(l, pattern) ==
  [ok |-> TRUE, val |-> contains(l, pattern)]

regex_match_line(l, regex_pattern) ==
  IF RegexNewOk(regex_pattern)
  THEN [ok |-> TRUE, val |-> contains(l, RegexCore(regex_pattern))]
  ELSE [ok |-> FALSE, val |-> FALSE]

get_normal_indexes(l, pattern) ==
  ByteRanges(l, match_indices(l, pattern), ByteLen(pattern))

get_grep_indexes(l, regex_pattern) ==
  ByteRanges(l, match_indices(l, RegexCore(regex_pattern)),
             ByteLen(RegexCore(regex_pattern)))

\* chars().take_while(|c| c == ch).count()
RECURSIVE TakeWhileCount(_, _)
TakeWhileCount(s, ch) ==
  IF s = <<>> \/ Head(s) # ch THEN 0 ELSE 1 + TakeWhileCount(Tail(s), ch)

indentation(l, tabs_c) ==
  TakeWhileCount(l, " ") + TakeWhileCount(l, "\t") * tabs_c

(***************************************************************************)
(* The colored crate, with colours on: a styled string is the text between *)
(* an escape sequence and the reset sequence.  Styling a string that       *)
(* already holds reset sequences re-opens the style after each of them.    *)
(***************************************************************************)
Esc(code) == <<"ESC", "[">> \o code \o <<"m">>
Reset == Esc(<<"0">>)
Red == <<"3", "1">>

color(s) == Esc(Red) \o s \o Reset

Styled(s, code) == Esc(code) \o replace(s, Reset, Reset \o Esc(code)) \o Reset

bold(s) == Styled(s, <<"1">>)
underline(s) == Styled(s, <<"4">>)
italic(s) == Styled(s, <<"3">>)
strikethrough(s) == Styled(s, <<"9">>)

\* format!("{}", n) for n >= 0.
Digit(d) == CASE d = 0 -> "0" [] d = 1 -> "1" [] d = 2 -> "2" [] d = 3 -> "3"
              [] d = 4 -> "4" [] d = 5 -> "5" [] d = 6 -> "6" [] d = 7 -> "7"
              [] d = 8 -> "8" [] d = 9 -> "9"

RECURSIVE Decimal(_)
Decimal(n) == IF n < 10 THEN <<Digit(n)>> ELSE Decimal(n \div 10) \o <<Digit(n % 10)>>

\* format!("{}: {}", idx + 1, text)
Numbered(idx, text) == Decimal(idx + 1) \o <<":", " ">> \o text

(***************************************************************************)
(* main.rs:225-263: the search line, the match, the coloured line.         *)
(***************************************************************************)
SearchLine(a, l) == IF a.insensitive THEN to_lowercase(l) ELSE l

PatternToSearch(a) == IF a.insensitive THEN to_lowercase(a.pattern) ELSE a.pattern

search_f(a, l) ==
  IF a.regex THEN regex_match_line(SearchLine(a, l), PatternToSearch(a))
  ELSE line_contains_pattern(SearchLine(a, l), PatternToSearch(a))

\* main.rs:241-243: Ok(true).
Matches(a, l) == search_f(a, l).ok /\ search_f(a, l).val

get_indexes_f(a, l) ==
  IF a.regex THEN get_grep_indexes(SearchLine(a, l), PatternToSearch(a))
  ELSE get_normal_indexes(SearchLine(a, l), PatternToSearch(a))

\* main.rs:247-259, one range: every occurrence of the range's text in the
\* line built so far is replaced, once per enabled attribute.
ColorOneRange(a, piece, acc) ==
  LET colored_pattern == color(piece)
      l1 == IF a.bold THEN replace(acc, piece, bold(colored_pattern))
            ELSE acc
      l2 == IF a.underline THEN replace(l1, piece, underline(colored_pattern))
            ELSE l1
      l3 == IF a.italic THEN replace(l2, piece, italic(colored_pattern))
            ELSE l2
  IN  IF a.strike THEN replace(l3, piece, strikethrough(colored_pattern))
      ELSE l3

\* main.rs:246-260.  ok is FALSE when a slice of the original line panics.
RECURSIVE ColorRanges(_, _, _, _)
ColorRanges(a, l, acc, ranges) ==
  IF ranges = <<>> THEN [ok |-> TRUE, text |-> acc]
  ELSE LET r == Head(ranges) IN
       IF ~SliceOk(l, r[1], r[2]) THEN [ok |-> FALSE, text |-> <<>>]
       ELSE ColorRanges(a, l,
                        ColorOneRange(a, Slice(l, r[1], r[2]), acc),
                        Tail(ranges))

\* main.rs:244-263.
ColoredLine(a, l, idx) ==
  LET c == ColorRanges(a, l, l, get_indexes_f(a, l))
  IN  [ok |-> c.ok,
       text |-> IF c.ok /\ a.line_numbers THEN Numbered(idx, c.text) ELSE c.text]

(***************************************************************************)
(* main.rs:265-297: the context lines of a match at idx.  An output record *)
(* is the printed text and the index of the line it prints.                *)
(***************************************************************************)
Out(idx, text) == [idx |-> idx, text |-> text]

\* Faulty variant: the before-lines are not put back in ascending order.
RECURSIVE BeforeLoopDown(_, _, _)
BeforeLoopDown(idx, before, i) ==
  IF i > before \/ idx < i THEN <<>>
  ELSE <<idx - i>> \o BeforeLoopDown(idx, before, i + 1)

before_indexes_unreversed(a, idx) ==
  IF a.before > 0 /\ idx >= 1 THEN BeforeLoopDown(idx, a.before, 1) ELSE <<>>

\* for i in 1..=before { if index < i { break; } push(index - i) }
RECURSIVE BeforeLoop(_, _, _)
BeforeLoop(idx, before, i) ==
  IF i > before \/ idx < i THEN <<>>
  ELSE <<idx - i>> \o BeforeLoop(idx, before, i + 1)

before_indexes(a, idx) ==
  IF a.before > 0 /\ idx >= 1 THEN Reverse(BeforeLoop(idx, a.before, 1)) ELSE <<>>

\* Faulty variant: an after-line that matches is left to its own match.
after_indexes_skip_matches(a, lines, idx) ==
  SelectSeq([i \in 1..a.after |-> idx + i],
            LAMBDA j : j < Len(lines) /\ ~Matches(a, lines[j + 1]))

\* for i in 1..=after { if index + i < count { print(index + i) } }
after_indexes(a, lines, idx) ==
  SelectSeq([i \in 1..a.after |-> idx + i], LAMBDA j : j < Len(lines))

PlainOut(lines, is) == [k \in 1..Len(is) |-> Out(is[k], lines[is[k] + 1])]

\* Everything one match prints during the scan.
MatchPrints(a, lines, idx, rendered) ==
  PlainOut(lines, before_indexes(a, idx))
  \o (IF ~a.section THEN <<Out(idx, rendered)>> ELSE <<>>)
  \o PlainOut(lines, after_indexes(a, lines, idx))

(***************************************************************************)
(* main.rs:302-333: the indices one match adds to sections_to_print.       *)
(***************************************************************************)
\* Faulty variant: the backward walk stops before the less indented line.
RECURSIVE BackwardLoopNoHead(_, _, _, _)
BackwardLoopNoHead(lines, tabs_c, starting_indentation, i) ==
  IF i < 0 THEN <<>>
  ELSE IF indentation(lines[i + 1], tabs_c) < starting_indentation THEN <<>>
  ELSE <<i>> \o BackwardLoopNoHead(lines, tabs_c, starting_indentation, i - 1)

\* for i in (0..index).rev()
RECURSIVE BackwardLoop(_, _, _, _)
BackwardLoop(lines, tabs_c, starting_indentation, i) ==
  IF i < 0 THEN <<>>
  ELSE IF indentation(lines[i + 1], tabs_c) < starting_indentation THEN <<i>>
  ELSE <<i>> \o BackwardLoop(lines, tabs_c, starting_indentation, i - 1)

\* for i in index..count
RECURSIVE ForwardLoop(_, _, _, _)
ForwardLoop(lines, tabs_c, starting_indentation, i) ==
  IF i >= Len(lines) THEN <<>>
  ELSE IF indentation(lines[i + 1], tabs_c) < starting_indentation THEN <<>>
  ELSE <<i>> \o ForwardLoop(lines, tabs_c, starting_indentation, i + 1)

SectionPushes(a, lines, idx) ==
  LET starting_indentation == indentation(lines[idx + 1], a.tabs_c)
  IN  IF a.section
      THEN <<idx>>
           \o BackwardLoop(lines, a.tabs_c, starting_indentation, idx - 1)
           \o ForwardLoop(lines, a.tabs_c, starting_indentation, idx)
      ELSE <<>>

(***************************************************************************)
(* main.rs:345-366: sort, dedup, and the lines the drain prints.           *)
(***************************************************************************)
RECURSIVE Insert(_, _)
Insert(x, s) ==
  IF s = <<>> THEN <<x>>
  ELSE IF x <= Head(s) THEN <<x>> \o s
  ELSE <<Head(s)>> \o Insert(x, Tail(s))

RECURSIVE sort(_)
sort(s) == IF s = <<>> THEN <<>> ELSE Insert(Head(s), sort(Tail(s)))

\* Faulty variant: duplicates are kept.
dedup_none(s) == s

\* Vec::dedup: consecutive equal elements collapse to the first.
RECURSIVE dedup(_)
dedup(s) ==
  IF Len(s) <= 1 THEN s
  ELSE IF s[1] = s[2] THEN dedup(Tail(s))
  ELSE <<Head(s)>> \o dedup(Tail(s))

\* found_rows.iter().find(|x| x.0 == idx): the first row of that index.
FoundRow(rows, idx) ==
  LET hits == SelectSeq(rows, LAMBDA x : x[1] = idx)
  IN  IF hits = <<>> THEN <<>> ELSE <<Head(hits)[2]>>

\* Faulty variant: the drain ignores found_rows.
DrainLinePlain(a, lines, rows, idx) ==
  IF a.line_numbers THEN Out(idx, Numbered(idx, lines[idx + 1]))
  ELSE Out(idx, lines[idx + 1])

DrainLine(a, lines, rows, idx) ==
  IF FoundRow(rows, idx) # <<>> THEN Out(idx, FoundRow(rows, idx)[1])
  ELSE IF a.line_numbers THEN Out(idx, Numbered(idx, lines[idx + 1]))
  ELSE Out(idx, lines[idx + 1])

DrainPrints(a, lines, rows, sections) ==
  LET todo == dedup(sort(sections))
  IN  [k \in 1..Len(todo) |-> DrainLine(a, lines, rows, todo[k])]

(***************************************************************************)
(* The inputs: a parsed command line and the lines of the input.  They are *)
(* drawn from six families, each aimed at one part of the program.         *)
(***************************************************************************)
\* The defaults of the command line (main.rs:56-105); bold cannot be
\* switched off.
DefaultArgs ==
  [pattern |-> <<"a">>, regex |-> FALSE, insensitive |-> FALSE,
   before |-> 0, after |-> 0, section |-> FALSE, tabs_c |-> 4,
   bold |-> TRUE, underline |-> FALSE, italic |-> FALSE, strike |-> FALSE,
   line_numbers |-> FALSE]

LineChars == {"a", "A", "Idot"}
PatChars == {"a", "A"}
Styles == {<<FALSE, FALSE, FALSE>>, <<TRUE, FALSE, FALSE>>, <<FALSE, TRUE, TRUE>>}
CtxLineKinds == {<<"a">>, <<"b">>}
MixedLineKinds == {<<"a">>, <<"b">>, <<" ", "\t", "a">>, <<"\t", " ", "b">>}
RegexPatterns == {<<"a">>, <<"(", "a", ")">>, <<"(">>, <<"a", "(">>, <<")">>}
RegexLineKinds == {<<"a">>, <<"b">>, <<"Idot", "a">>}
SectionLineKinds ==
  {<<"a">>, <<"b">>, <<" ", " ", "a">>, <<" ", " ", "b">>, <<"\t", "\t", "b">>}

\* exit_code of a run that has not ended.
Running == -1

\* The state when the command line is parsed and the input is read.
InitWith(a, c) ==
  /\ args = a
  /\ content = c
  /\ index = 0
  /\ line = <<>>
  /\ search_line = <<>>
  /\ indexes = <<>>
  /\ colored_line = <<>>
  /\ pc = "start"
  /\ exit_code = Running
  /\ stdout = <<>>
  /\ stderr = <<>>
  /\ sections_to_print = <<>>
  /\ found_rows = <<>>

\* One line, any text: the matcher and the renderer.
RenderInputs ==
  \E p \in SeqUpTo(PatChars, MaxPatLen) \ {<<>>}, ins \in BOOLEAN,
     st \in Styles, l \in SeqUpTo(LineChars, MaxLineLen) :
    InitWith([DefaultArgs EXCEPT !.pattern = p, !.insensitive = ins,
                                 !.underline = st[1], !.italic = st[2],
                                 !.strike = st[3]],
             <<l>>)

\* Few lines, every before/after count.
ContextInputs ==
  \E b \in 0..MaxCtx, af \in 0..MaxCtx, ln \in BOOLEAN,
     c \in SeqUpTo(CtxLineKinds, CtxLines) :
    InitWith([DefaultArgs EXCEPT !.before = b, !.after = af,
                                 !.line_numbers = ln],
             c)

\* Section mode requested together with before/after counts, over lines of
\* mixed indentation.
ConflictInputs ==
  \E b \in 0..MaxCtx, af \in 0..MaxCtx, ln \in BOOLEAN,
     c \in SeqUpTo(MixedLineKinds, CtxLines) :
    InitWith([DefaultArgs EXCEPT !.before = b, !.after = af,
                                 !.section = TRUE, !.line_numbers = ln],
             c)

\* Regex mode, patterns that compile and patterns that do not.
RegexInputs ==
  \E p \in RegexPatterns, ins \in BOOLEAN, sec \in BOOLEAN,
     c \in SeqUpTo(RegexLineKinds, CtxLines) :
    InitWith([DefaultArgs EXCEPT !.regex = TRUE, !.pattern = p,
                                 !.insensitive = ins, !.section = sec],
             c)

\* Section mode over indented input.
SectionInputs ==
  \E c \in SeqUpTo(SectionLineKinds, SectionLines) :
    InitWith([DefaultArgs EXCEPT !.section = TRUE, !.tabs_c = 2], c)

\* The empty pattern, which matches at every character boundary.  The lines
\* stay short: each range inserts the styled text at every boundary of the
\* line built so far, which grows it fourteenfold.
EmptyPatternInputs ==
  \E l \in {<<>>, <<"a">>, <<"Idot">>} :
    InitWith([DefaultArgs EXCEPT !.pattern = <<>>], <<l>>)

Init ==
  RenderInputs \/ ContextInputs \/ ConflictInputs \/ RegexInputs
  \/ SectionInputs \/ EmptyPatternInputs

(***************************************************************************)
(* main.rs:208-220: section mode overrides before and after.               *)
(***************************************************************************)
\* Faulty variant: the warning is given and the counts are kept.
StartKeepsCounts ==
  /\ pc = "start"
  /\ IF args.section /\ (args.before # 0 \/ args.after # 0)
     THEN stderr' = Append(stderr, "warning")
     ELSE UNCHANGED stderr
  /\ pc' = "scan"
  /\ UNCHANGED <<args, content, index, line, search_line, indexes, colored_line,
                 exit_code, stdout, sections_to_print, found_rows>>

Start ==
  /\ pc = "start"
  /\ IF args.section /\ (args.before # 0 \/ args.after # 0)
     THEN /\ stderr' = Append(stderr, "warning")
          /\ args' = [args EXCEPT !.after = 0, !.before = 0]
     ELSE UNCHANGED <<stderr, args>>
  /\ pc' = "scan"
  /\ UNCHANGED <<content, index, line, search_line, indexes, colored_line,
                 exit_code, stdout, sections_to_print, found_rows>>

(***************************************************************************)
(* main.rs:223-343: one iteration of the scan, by its outcome.             *)
(***************************************************************************)
InLoop == pc = "scan" /\ index < Len(content)

\* main.rs:223-232.
LoopHead ==
  /\ line' = content[index + 1]
  /\ search_line' = SearchLine(args, content[index + 1])

\* main.rs:337-341: the pattern does not compile.
ScanError ==
  /\ InLoop
  /\ ~search_f(args, content[index + 1]).ok
  /\ LoopHead
  /\ indexes' = <<>>
  /\ colored_line' = <<>>
  /\ stderr' = Append(stderr, "invalid regex")
  /\ exit_code' = 2
  /\ pc' = "done"
  /\ UNCHANGED <<args, content, index, stdout, sections_to_print, found_rows>>

\* main.rs:242-243: the line does not match.
ScanNoMatch ==
  /\ InLoop
  /\ search_f(args, content[index + 1]).ok
  /\ ~search_f(args, content[index + 1]).val
  /\ LoopHead
  /\ indexes' = <<>>
  /\ colored_line' = <<>>
  /\ index' = index + 1
  /\ UNCHANGED <<args, content, pc, exit_code, stdout, stderr,
                 sections_to_print, found_rows>>

\* main.rs:247: a range does not slice the original line; the thread
\* panics and the process ends with status 101.
ScanPanic ==
  /\ InLoop
  /\ Matches(args, content[index + 1])
  /\ ~ColoredLine(args, content[index + 1], index).ok
  /\ LoopHead
  /\ indexes' = get_indexes_f(args, content[index + 1])
  /\ colored_line' = <<>>
  /\ stderr' = Append(stderr, "panic")
  /\ exit_code' = 101
  /\ pc' = "done"
  /\ UNCHANGED <<args, content, index, stdout, sections_to_print, found_rows>>

\* main.rs:243-334: the line matches.
ScanMatch ==
  /\ InLoop
  /\ Matches(args, content[index + 1])
  /\ LET c == ColoredLine(args, content[index + 1], index) IN
       /\ c.ok
       /\ colored_line' = c.text
       /\ stdout' = stdout \o MatchPrints(args, content, index, c.text)
       /\ found_rows' = IF args.section
                        THEN Append(found_rows, <<index, c.text>>)
                        ELSE found_rows
  /\ LoopHead
  /\ indexes' = get_indexes_f(args, content[index + 1])
  /\ sections_to_print' = sections_to_print \o SectionPushes(args, content, index)
  /\ index' = index + 1
  /\ UNCHANGED <<args, content, pc, exit_code, stderr>>

(***************************************************************************)
(* main.rs:345-369: after the scan.                                        *)
(***************************************************************************)
Drain ==
  /\ pc = "scan"
  /\ index = Len(content)
  /\ args.section
  /\ sections_to_print' = dedup(sort(sections_to_print))
  /\ stdout' = stdout \o DrainPrints(args, content, found_rows, sections_to_print)
  /\ exit_code' = 0
  /\ pc' = "done"
  /\ UNCHANGED <<args, content, index, line, search_line, indexes, colored_line,
                 stderr, found_rows>>

Finish ==
  /\ pc = "scan"
  /\ index = Len(content)
  /\ ~args.section
  /\ exit_code' = 0
  /\ pc' = "done"
  /\ UNCHANGED <<args, content, index, line, search_line, indexes, colored_line,
                 stdout, stderr, sections_to_print, found_rows>>

Next == Start \/ ScanError \/ ScanNoMatch \/ ScanPanic \/ ScanMatch \/ Drain \/ Finish

Spec == Init /\ [][Next]_vars

TypeOK ==
  /\ pc \in {"start", "scan", "done"}
  /\ index \in 0..Len(content)
  /\ exit_code \in {Running, 0, 2, 101}
  /\ (pc = "done") = (exit_code # Running)

(***************************************************************************)
(* Vocabulary of the properties.                                           *)
(***************************************************************************)
\* The line indices of a sequence of output records.
IdxOf(recs) == [k \in 1..Len(recs) |-> recs[k].idx]

\* <<lo, lo + 1, ..., hi>>.
Interval(lo, hi) == [k \in 1..(hi - lo + 1) |-> lo + k - 1]

StrictlyAscending(s) == \A k \in 1..(Len(s) - 1) : s[k] < s[k + 1]

\* What a step appended to a sequence.
Appended(old, new) == SubSeq(new, Len(old) + 1, Len(new))

\* The step is the scan of a matching line that ran to its end.
MatchStep ==
  /\ pc = "scan"
  /\ index < Len(content)
  /\ Matches(args, content[index + 1])
  /\ index' = index + 1

MatchedIndices == {m \in 0..(Len(content) - 1) : Matches(args, content[m + 1])}

WidthAt(i) == indentation(content[i + 1], args.tabs_c)

\* The section of a match at m, as the specification words it.
SectionOf(m) ==
  {i \in 0..(m - 1) : \A j \in (i + 1)..(m - 1) : WidthAt(j) >= WidthAt(m)}
  \cup {i \in m..(Len(content) - 1) : \A j \in m..i : WidthAt(j) >= WidthAt(m)}

\* The context window of a match at m.
WindowOf(m) ==
  Interval(Max(0, m - args.before), Min(Len(content) - 1, m + args.after))

\* A line that is not highlighted, as the drain prints it.
PlainForm(i) ==
  IF args.line_numbers THEN Numbered(i, content[i + 1]) ELSE content[i + 1]

(***************************************************************************)
(* C1.  In regex mode, for every input (an input of zero lines included),  *)
(* a pattern that does not compile ends the run with exit status 2 and     *)
(* nothing on standard output.                                             *)
(***************************************************************************)
C1_InvalidPatternExits2 ==
  (pc = "done" /\ args.regex /\ ~RegexNewOk(args.pattern))
    => (exit_code = 2 /\ stdout = <<>>)

C3_DrainSortedUnion ==
  (pc = "done" /\ exit_code = 0 /\ args.section) =>
    /\ StrictlyAscending(IdxOf(stdout))
    /\ Range(IdxOf(stdout)) = UNION {SectionOf(m) : m \in MatchedIndices}

C3_Witness ==
  /\ pc = "done" /\ exit_code = 0 /\ args.section
  /\ \E m1, m2 \in MatchedIndices :
       m1 # m2 /\ SectionOf(m1) \cap SectionOf(m2) # {}
  /\ Len(stdout) >= 3

(***************************************************************************)
(* C4.  Without section mode, a match at i in an N-line input prints the   *)
(* indices max(0, i - before) .. min(N - 1, i + after) in ascending order, *)
(* the matched line in its coloured form and the others as they are; when  *)
(* i >= before and i + after < N that is before + 1 + after lines.         *)
(***************************************************************************)
C4_ContextWindow ==
  [][(MatchStep /\ ~args.section) =>
       LET new == Appended(stdout, stdout')
           N == Len(content)
       IN  /\ IdxOf(new) = Interval(Max(0, index - args.before),
                                    Min(N - 1, index + args.after))
           /\ \A k \in 1..Len(new) :
                new[k].text = IF new[k].idx = index THEN colored_line'
                              ELSE content[new[k].idx + 1]
           /\ (index >= args.before /\ index + args.after < N)
                => Len(new) = args.before + 1 + args.after]_vars

C4_Witness ==
  /\ ~args.section /\ args.before = 1 /\ args.after = 1
  /\ Len(content) = 3
  /\ index = 2
  /\ ~Matches(args, content[1])
  /\ Matches(args, content[2])
  /\ IdxOf(stdout) = <<0, 1, 2>>

(***************************************************************************)
(* C5.  Without section mode the output is the concatenation, in match     *)
(* order, of the windows of the matches scanned so far: a line in the      *)
(* windows of k matches is printed k times.                                *)
(***************************************************************************)
C5_WindowsConcatenated ==
  ~args.section =>
    LET scanned == {m \in MatchedIndices : m < index} IN
      /\ IdxOf(stdout) =
           Flatten([m \in 1..index |->
                      IF (m - 1) \in scanned THEN WindowOf(m - 1) ELSE <<>>])
      /\ \A j \in 0..(Len(content) - 1) :
           Cardinality({k \in 1..Len(stdout) : stdout[k].idx = j})
             = Cardinality({m \in scanned : j \in Range(WindowOf(m))})

C5_Witness ==
  /\ ~args.section
  /\ \E j \in 0..(Len(content) - 1) :
       Cardinality({k \in 1..Len(stdout) : stdout[k].idx = j}) >= 2

(***************************************************************************)
(* C6.  Section mode requested with a nonzero before or after count (the   *)
(* warning on standard error records it): both counts are 0 from the first *)
(* scanned line on, the run goes on, nothing is printed during the scan,   *)
(* and the output is that of the section run with before = after = 0.      *)
(***************************************************************************)
\* The output of a whole run that ends with status 0.
RunStdout(a, lines) ==
  LET ms == SelectSeq(Interval(0, Len(lines) - 1),
                      LAMBDA m : Matches(a, lines[m + 1]))
      text(k) == ColoredLine(a, lines[ms[k] + 1], ms[k]).text
  IN  Flatten([k \in 1..Len(ms) |-> MatchPrints(a, lines, ms[k], text(k))])
      \o (IF a.section
          THEN DrainPrints(a, lines, [k \in 1..Len(ms) |-> <<ms[k], text(k)>>],
                 Flatten([k \in 1..Len(ms) |-> SectionPushes(a, lines, ms[k])]))
          ELSE <<>>)

C6_ConflictForcesZero ==
  ("warning" \in Range(stderr)) =>
    /\ args.section /\ args.before = 0 /\ args.after = 0
    /\ pc # "start"
    /\ pc = "scan" => stdout = <<>>
    /\ pc = "done" =>
         \/ /\ exit_code = 0
            /\ stdout = RunStdout([args EXCEPT !.before = 0, !.after = 0], content)
         \/ /\ exit_code # 0
            /\ stdout = <<>>
            /\ Range(stderr) \cap {"invalid regex", "panic"} # {}

C6_Witness ==
  /\ "warning" \in Range(stderr)
  /\ pc = "done" /\ exit_code = 0
  /\ Len(found_rows) >= 1
  /\ Len(stdout) >= 2

(***************************************************************************)
(* C7.  The coloured line of a matched line wraps the text of each match   *)
(* range in the styling once and leaves the rest as it is: without the     *)
(* escape sequences it is the original line (after its number, if lines    *)
(* are numbered), and it opens the colour once per range; styling is never *)
(* applied to text that the styling of an earlier range or attribute put   *)
(* there.                                                                  *)
(***************************************************************************)
\* The positions of s outside every escape sequence ESC [ ... m.
TextPositions(s) ==
  {k \in 1..Len(s) :
     ~\E e \in Max(1, k - 4)..k :
        s[e] = "ESC" /\ \A j \in (e + 1)..(k - 1) : s[j] # "m"}

\* s without its escape sequences is t.
UnstyledIs(s, t) ==
  LET P == TextPositions(s) IN
    /\ Cardinality(P) = Len(t)
    /\ \A k \in P : s[k] = t[Cardinality({j \in P : j <= k})]

C7_EachRangeStyledOnce ==
  (indexes # <<>> /\ exit_code # 101) =>
    /\ UnstyledIs(colored_line,
                  IF args.line_numbers THEN Numbered(index - 1, line) ELSE line)
    /\ Cardinality(Occurrences(colored_line, Esc(Red))) = Len(indexes)

(***************************************************************************)
(* C8.  For a literal pattern P and a line L, the ranges of                *)
(* get_normal_indexes(L, P) are sorted by start and do not overlap, each   *)
(* slices L to exactly P, and each is the first occurrence at or after the *)
(* end of the one before it, none being left after the last.  "aa" in      *)
(* "aaa" gives the one range [0,2).                                        *)
(***************************************************************************)
OccursAtByte(L, P, t) ==
  SliceOk(L, t, t + ByteLen(P)) /\ Slice(L, t, t + ByteLen(P)) = P

C8_LiteralRanges ==
  (~args.regex /\ indexes # <<>>) =>
    LET L == search_line
        P == PatternToSearch(args)
        n == Len(indexes)
        \* where the scan restarts before range j (j = n + 1: after the last)
        from(j) == IF j = 1 THEN 0
                   ELSE IF indexes[j - 1][2] > indexes[j - 1][1]
                        THEN indexes[j - 1][2]
                        ELSE indexes[j - 1][1] + 1
    IN  /\ \A j \in 1..n : OccursAtByte(L, P, indexes[j][1])
                           /\ indexes[j][2] = indexes[j][1] + ByteLen(P)
        /\ \A j \in 1..(n - 1) : /\ indexes[j][1] < indexes[j + 1][1]
                                 /\ indexes[j][2] <= indexes[j + 1][1]
        /\ \A j \in 1..n : \A t \in from(j)..(indexes[j][1] - 1) :
                              ~OccursAtByte(L, P, t)
        /\ \A t \in from(n + 1)..ByteLen(L) : ~OccursAtByte(L, P, t)
        /\ (L = <<"a", "a", "a">> /\ P = <<"a", "a">>) => indexes = << <<0, 2>> >>

C8_Witness ==
  /\ ~args.regex
  /\ search_line = <<"a", "a", "a">>
  /\ PatternToSearch(args) = <<"a", "a">>
  /\ indexes = << <<0, 2>> >>

(***************************************************************************)
(* C9.  Every range (start, end) the scan slices a line with satisfies     *)
(* 0 <= start <= end <= length of the original line, in case-insensitive   *)
(* mode too, so that slicing the original line never fails.                *)
(***************************************************************************)
C9_RangesWithinOriginalLine ==
  /\ \A j \in 1..Len(indexes) :
       /\ 0 <= indexes[j][1]
       /\ indexes[j][1] <= indexes[j][2]
       /\ indexes[j][2] <= ByteLen(line)
  /\ exit_code # 101

(***************************************************************************)
(* C10.  In section mode nothing is printed during the scan; the drain     *)
(* prints a selected line in the coloured form made when it was scanned    *)
(* iff the line itself matched, and otherwise as its original text without *)
(* highlighting (after its number, if lines are numbered).                 *)
(***************************************************************************)
C10_DrainForms ==
  (args.section /\ pc # "start") =>
    /\ (pc = "scan" \/ exit_code # 0) => stdout = <<>>
    /\ \A k \in 1..Len(stdout) :
         LET i == stdout[k].idx IN
           stdout[k].text =
             IF i \in MatchedIndices THEN ColoredLine(args, content[i + 1], i).text
             ELSE PlainForm(i)

C10_Witness ==
  /\ args.section /\ pc = "done" /\ exit_code = 0
  /\ \E m1, m2 \in MatchedIndices : m1 < m2 /\ m2 \in SectionOf(m1)
  /\ \E m1, m2 \in MatchedIndices : m2 < m1 /\ m2 \in SectionOf(m1)
  /\ \E k \in 1..Len(stdout) :
       /\ stdout[k].idx \in MatchedIndices
       /\ stdout[k].text # PlainForm(stdout[k].idx)
  /\ \E k \in 1..Len(stdout) :
       /\ stdout[k].idx \notin MatchedIndices
       /\ stdout[k].text = PlainForm(stdout[k].idx)

====
